---- MODULE Spec2Model ----
(***************************************************************************)
(* FlatbuffersStreamingParser (flatbuffers_streaming_json_visitor.h): the  *)
(* SAX context that picojson drives while it tokenizes a JSON document.    *)
(* The recursion of picojson::_parse through the handlers is modelled by   *)
(* an explicit call stack; parse_object_item is split at its recursive     *)
(* _parse call into an Enter and an Exit step.  The reconstruction buffer  *)
(* ss is a sequence of lexemes, one per string the handlers stream into    *)
(* it.                                                                     *)
(***************************************************************************)
EXTENDS Integers, Sequences, FiniteSets, TLC

VARIABLES
  \* ---- fields of FlatbuffersStreamingParser
  root_path, error_path, flatbuffers_parser_ready, is_parse_error,
  is_error_path, object_depth, array_depth, object_idx, array_idx,
  current_path, current_key, ss, emit_json, needs_close_array,
  needs_close_object, reflection_table, schema_loaded,
  \* ---- the C++ call stack of picojson::_parse and the handlers
  pc, stack, ok,
  \* ---- what the caller and the collaborators observe
  doc, nvalues, dispatches, result, capture_start,
  \* ---- arguments and result of a stand-alone is_a_subpath call
  arg_current, arg_pattern, ret_subpath

engine == << root_path, error_path, flatbuffers_parser_ready, is_parse_error,
             is_error_path, object_depth, array_depth, object_idx, array_idx,
             current_path, current_key, ss, emit_json, needs_close_array,
             needs_close_object, reflection_table, schema_loaded >>
control == << pc, stack, ok >>
observed == << doc, nvalues, dispatches, result, capture_start >>
matcher == << arg_current, arg_pattern, ret_subpath >>
vars == << engine, control, observed, matcher >>

(***************************************************************************)
(* Bounds of the model.                                                    *)
(***************************************************************************)
\* number of values (calls of picojson::_parse) in one document
MaxValues == 3
\* the same, for a document parsed in the plain case: both schemas loaded,
\* integer scalars only, collaborators that accept, no syntax error
MaxPlainValues == 4
\* number of segments of the paths handed to a stand-alone is_a_subpath call
MaxPathLen == 3

wildcard_sym == "*"

\* object keys of the documents
Keys == {"a", "b"}
PatternSegments == Keys \cup {wildcard_sym}

SeqsUpTo(S, n) == UNION {[1..k -> S] : k \in 0..n}

\* the path patterns a caller hands to parse_stream
RootPatterns == { << >>, <<"a">>, <<wildcard_sym>> }
ErrorPatterns == { << >>, <<"b">>, <<"a", "b">> }

(***************************************************************************)
(* Path matching.                                                          *)
(***************************************************************************)
\* the wildcard looked for in the segment of the current path
equality_or_wildcard_swapped(root, current) ==
  (current = wildcard_sym) \/ (root = current)

equality_or_wildcard(root, current) ==
  (root = wildcard_sym) \/ (root = current)

\* std::equal(first1, last1, first2, pred): walks the first range, reading
\* the second at the same offset
RECURSIVE std_equal(_, _, _)
std_equal(first, second, i) ==
  IF i > Len(first) THEN TRUE
  ELSE IF ~equality_or_wildcard(first[i], second[i]) THEN FALSE
  ELSE std_equal(first, second, i + 1)

is_a_subpath(cur, root) ==
  (root = << >>) \/
  ( (Len(cur) >= Len(root)) /\ std_equal(root, cur, 1) )

(***************************************************************************)
(* The reflection schema the engine was constructed with: the tables of    *)
(* the binary schema and the fields LookupByKey finds in them.  Root.a is  *)
(* a vector of Item tables, Item is a keyed table (id, val: Val), Plain    *)
(* has id and a scalar val, so that its keys are never rewritten.          *)
(***************************************************************************)
Tables == {"Root", "Item", "Val", "Plain"}
NoTable == "nullptr"
NoField == [base |-> "nullptr", element |-> "None", index |-> NoTable]
root_table == "Root"

LookupByKey(table, name) ==
  CASE table = "Root" /\ name = "a" ->
         [base |-> "Vector", element |-> "Obj", index |-> "Item"]
    [] table = "Root" /\ name = "b" ->
         [base |-> "Obj", element |-> "None", index |-> "Plain"]
    [] table = "Item" /\ name = "id" ->
         [base |-> "String", element |-> "None", index |-> NoTable]
    [] table = "Item" /\ name = "val" ->
         [base |-> "Obj", element |-> "None", index |-> "Val"]
    [] table = "Val" /\ name = "a" ->
         [base |-> "Int", element |-> "None", index |-> NoTable]
    [] table = "Plain" /\ name = "id" ->
         [base |-> "String", element |-> "None", index |-> NoTable]
    [] table = "Plain" /\ name = "val" ->
         [base |-> "Int", element |-> "None", index |-> NoTable]
    [] OTHER -> NoField

\* check_for_keyed_vector_table: the value returned and the reflection_table
\* it leaves behind
check_for_keyed_vector_table(table, key) ==
  IF table = NoTable
  THEN [found |-> FALSE, table |-> table]
  ELSE
    LET id_field == LookupByKey(table, "id")
        val_field == LookupByKey(table, "val")
        field == LookupByKey(table, key)
    IN IF id_field # NoField /\ val_field # NoField
       THEN IF val_field.base = "Obj"
            THEN [found |-> TRUE, table |-> val_field.index]
            ELSE [found |-> FALSE, table |-> table]
       ELSE IF field = NoField
            THEN [found |-> FALSE, table |-> table]
            ELSE IF field.base = "Obj"
                 THEN [found |-> FALSE, table |-> field.index]
                 ELSE IF field.base = "Vector" /\ field.element = "Obj"
                      THEN [found |-> FALSE, table |-> field.index]
                      ELSE [found |-> FALSE, table |-> table]

(***************************************************************************)
(* Lexemes of the input text and of the reconstructed text.                *)
(***************************************************************************)
KeyLex(key) == "\"" \o key \o "\":"
TaggedLex(key) == "\"id\":\"" \o key \o "\",\"val\":"

(***************************************************************************)
(* The call stack.  A frame is one activation of picojson's _parse_object  *)
(* ("obj"), _parse_array ("arr") or of parse_object_item ("item", with the *)
(* locals the handler keeps across its recursive _parse call).             *)
(***************************************************************************)
ContainerFrame(kind) ==
  [ kind |-> kind, key |-> "", keyed |-> FALSE, table_prev |-> NoTable,
    array_prev |-> FALSE, object_prev |-> FALSE ]

ItemFrame(key, keyed, table_prev, array_prev, object_prev) ==
  [ kind |-> "item", key |-> key, keyed |-> keyed, table_prev |-> table_prev,
    array_prev |-> array_prev, object_prev |-> object_prev ]

Top == stack[Len(stack)]
Pop(s) == SubSeq(s, 1, Len(s) - 1)
Pop2(s) == SubSeq(s, 1, Len(s) - 2)

\* no parse call is running: after construction, after clear(), after
\* parse_stream returned
Idle == pc \in {"constructed", "cleared", "returned"}

(***************************************************************************)
(* RecordPipeline: convert_json_stream_to_flatbuffer.  The encoder, the    *)
(* verifier and the sinks are collaborators: each may accept or refuse.    *)
(***************************************************************************)
Refused == {"root_type_rejected", "encode_failed", "verify_failed",
            "sink_returned_false"}

OtherScalars == {"null", "true", "3.9", "\"s\""}

\* The environment of one parse call deviates at most once from the plain
\* case of integer scalars and accepting collaborators: by one scalar of
\* another kind, or by one refused dispatch.  Deviations and syntax errors
\* happen in documents of at most MaxValues values.
NoDeviationYet ==
  /\ \A i \in DOMAIN dispatches : dispatches[i].outcome \notin Refused
  /\ \A i \in DOMAIN doc : doc[i] \notin OtherScalars

MayDeviate == NoDeviationYet /\ nvalues <= MaxValues

PlainCall == flatbuffers_parser_ready /\ schema_loaded /\ NoDeviationYet

ValueLimit == IF PlainCall THEN MaxPlainValues ELSE MaxValues

ConvertOutcomes ==
  IF flatbuffers_parser_ready
  THEN {"ok"} \cup (IF MayDeviate THEN Refused ELSE {})
  ELSE {"schema_unavailable"}

EncoderCalled(o) == o \in {"encode_failed", "verify_failed", "sink_returned_false", "ok"}
SinkInvoked(o) == o \in {"sink_returned_false", "ok"}

\* the record of one convert_json_stream_to_flatbuffer call on text, ending
\* with outcome o: the root type it selects (the sink it would invoke), and
\* for the observer the path at which the capture began and whether the
\* tokenizer had completed the captured value
convert_json_stream_to_flatbuffer(text, o, complete) ==
  [ kind |-> IF is_error_path THEN "Error" ELSE "Message",
    text |-> text,
    outcome |-> o,
    began |-> capture_start,
    complete |-> complete ]

(***************************************************************************)
(* Construction and clear().                                               *)
(***************************************************************************)
\* clear() leaving the output flags as they are
clear_keeping_output_flags ==
  /\ is_parse_error' = FALSE
  /\ is_error_path' = FALSE
  /\ object_depth' = 0
  /\ array_depth' = 0
  /\ object_idx' = 0
  /\ array_idx' = 0
  /\ current_path' = << >>
  /\ current_key' = ""
  /\ ss' = << >>
  /\ UNCHANGED << emit_json, needs_close_array, needs_close_object >>

clear ==
  /\ is_parse_error' = FALSE
  /\ is_error_path' = FALSE
  /\ object_depth' = 0
  /\ array_depth' = 0
  /\ object_idx' = 0
  /\ array_idx' = 0
  /\ current_path' = << >>
  /\ current_key' = ""
  /\ ss' = << >>
  /\ emit_json' = FALSE
  /\ needs_close_array' = FALSE
  /\ needs_close_object' = FALSE

\* the constructor: clear(), then the two schema loads.  text_ok and
\* binary_ok are the results of parse_flatbuffers_text_schema and
\* parse_flatbuffers_binary_schema; when the binary load fails,
\* reflection_table is never assigned and holds an indeterminate value.
Init ==
  /\ is_parse_error = FALSE
  /\ is_error_path = FALSE
  /\ object_depth = 0
  /\ array_depth = 0
  /\ object_idx = 0
  /\ array_idx = 0
  /\ current_path = << >>
  /\ current_key = ""
  /\ ss = << >>
  /\ emit_json = FALSE
  /\ needs_close_array = FALSE
  /\ needs_close_object = FALSE
  /\ root_path = << >>
  /\ error_path = << >>
  /\ \E text_ok \in BOOLEAN, binary_ok \in BOOLEAN :
       /\ flatbuffers_parser_ready = text_ok
       /\ schema_loaded = binary_ok
       /\ IF binary_ok
          THEN reflection_table = root_table
          ELSE reflection_table \in {NoTable, "Item"}
  /\ pc = "constructed"
  /\ stack = << >>
  /\ ok = TRUE
  /\ doc = << >>
  /\ nvalues = 0
  /\ dispatches = << >>
  /\ result = "none"
  /\ capture_start = << >>
  /\ arg_current = << >>
  /\ arg_pattern = << >>
  /\ ret_subpath = "none"

\* a call of clear() by the owner, between parse calls.  doc, nvalues and
\* dispatches record what happened since the engine was last cleared.
Clear ==
  /\ Idle
  /\ clear
  /\ pc' = "cleared"
  /\ doc' = << >>
  /\ nvalues' = 0
  /\ dispatches' = << >>
  /\ capture_start' = << >>
  /\ UNCHANGED << root_path, error_path, flatbuffers_parser_ready,
                  reflection_table, schema_loaded, stack, ok, result, matcher >>

\* parse_stream up to its call of picojson::_parse
ParseStream(_root_path, _error_path) ==
  /\ Idle
  /\ clear
  /\ root_path' = _root_path
  /\ error_path' = _error_path
  /\ pc' = "value"
  /\ stack' = << >>
  /\ ok' = TRUE
  /\ doc' = << >>
  /\ nvalues' = 1
  /\ dispatches' = << >>
  /\ result' = "none"
  /\ capture_start' = << >>
  /\ UNCHANGED << flatbuffers_parser_ready, reflection_table, schema_loaded,
                  matcher >>

\* parse_stream after picojson::_parse returned: err is non-empty exactly
\* when _parse returned false
ParseStreamReturn ==
  /\ pc = "return"
  /\ stack = << >>
  /\ result' = IF ok /\ (is_parse_error = FALSE) THEN "true" ELSE "false"
  /\ pc' = "returned"
  /\ UNCHANGED << engine, stack, ok, doc, nvalues, dispatches, capture_start,
                  matcher >>

(***************************************************************************)
(* Scalar handlers.  picojson::_parse calls one of them for a scalar token *)
(* and returns its result.                                                 *)
(***************************************************************************)
Scalar(input, output, okay) ==
  /\ pc = "value"
  /\ input \in OtherScalars => MayDeviate
  /\ ss' = IF emit_json THEN Append(ss, output) ELSE ss
  /\ doc' = Append(doc, input)
  /\ ok' = okay
  /\ pc' = "return"
  /\ UNCHANGED << root_path, error_path, flatbuffers_parser_ready,
                  is_parse_error, is_error_path, object_depth, array_depth,
                  object_idx, array_idx, current_path, current_key, emit_json,
                  needs_close_array, needs_close_object, reflection_table,
                  schema_loaded, stack, nvalues, dispatches, result, capture_start, matcher >>

set_null == Scalar("null", "null", TRUE)

set_bool == Scalar("true", "true", TRUE)

set_int64 == Scalar("1", "1", TRUE)

\* ss << (int)(d): the fraction is cut off
set_number == Scalar("3.9", "3", TRUE)

\* the string is streamed also when _parse_string failed on it (okay = FALSE:
\* the input ended inside the string)
parse_string == \E okay \in BOOLEAN : Scalar("\"s\"", "\"s\"", okay)

\* picojson::_parse on a token that starts no value, or at the end of input
SyntaxErrorInValue ==
  /\ pc = "value"
  /\ nvalues <= MaxValues
  /\ ok' = FALSE
  /\ pc' = "return"
  /\ UNCHANGED << engine, stack, observed, matcher >>

(***************************************************************************)
(* Arrays.                                                                 *)
(***************************************************************************)
parse_array_start ==
  /\ pc = "value"
  /\ array_depth' = array_depth + 1
  /\ array_idx' = 0
  /\ ss' = IF emit_json THEN Append(ss, "[") ELSE ss
  /\ stack' = Append(stack, ContainerFrame("arr"))
  /\ pc' = "arrFirst"
  /\ doc' = Append(doc, "[")
  /\ UNCHANGED << root_path, error_path, flatbuffers_parser_ready,
                  is_parse_error, is_error_path, object_depth, object_idx,
                  current_path, current_key, emit_json, needs_close_array,
                  needs_close_object, reflection_table, schema_loaded, ok,
                  nvalues, dispatches, result, capture_start, matcher >>

\* parse_array_item up to its call of _parse
parse_array_item ==
  /\ pc \in {"arrFirst", "arrNext"}
  /\ nvalues < ValueLimit
  /\ ss' = IF emit_json /\ array_idx > 0 THEN Append(ss, ",") ELSE ss
  /\ array_idx' = array_idx + 1
  /\ pc' = "value"
  /\ nvalues' = nvalues + 1
  /\ doc' = IF pc = "arrNext" THEN Append(doc, ",") ELSE doc
  /\ UNCHANGED << root_path, error_path, flatbuffers_parser_ready,
                  is_parse_error, is_error_path, object_depth, array_depth,
                  object_idx, current_path, current_key, emit_json,
                  needs_close_array, needs_close_object, reflection_table,
                  schema_loaded, stack, ok, dispatches, result, capture_start,
                  matcher >>

\* parse_array_item returns what _parse returned; _parse_array goes on to
\* the next item, or returns false
ArrayItemReturn ==
  /\ pc = "return"
  /\ stack # << >>
  /\ Top.kind = "arr"
  /\ IF ok
     THEN /\ pc' = "arrNext"
          /\ stack' = stack
     ELSE /\ pc' = "return"
          /\ stack' = Pop(stack)
  /\ UNCHANGED << engine, ok, observed, matcher >>

\* parse_array_stop without its array_depth--
parse_array_stop_keeping_depth ==
  /\ pc \in {"arrFirst", "arrNext"}
  /\ array_idx' = -1
  /\ ss' = IF emit_json THEN Append(ss, "]") ELSE ss
  /\ stack' = Pop(stack)
  /\ ok' = TRUE
  /\ pc' = "return"
  /\ doc' = Append(doc, "]")
  /\ UNCHANGED << root_path, error_path, flatbuffers_parser_ready,
                  is_parse_error, is_error_path, object_depth, array_depth,
                  object_idx, current_path, current_key, emit_json,
                  needs_close_array, needs_close_object, reflection_table,
                  schema_loaded, nvalues, dispatches, result, capture_start,
                  matcher >>

parse_array_stop ==
  /\ pc \in {"arrFirst", "arrNext"}
  /\ array_depth' = array_depth - 1
  /\ array_idx' = -1
  /\ ss' = IF emit_json THEN Append(ss, "]") ELSE ss
  /\ stack' = Pop(stack)
  /\ ok' = TRUE
  /\ pc' = "return"
  /\ doc' = Append(doc, "]")
  /\ UNCHANGED << root_path, error_path, flatbuffers_parser_ready,
                  is_parse_error, is_error_path, object_depth, object_idx,
                  current_path, current_key, emit_json, needs_close_array,
                  needs_close_object, reflection_table, schema_loaded,
                  nvalues, dispatches, result, capture_start, matcher >>

\* _parse_array finding neither ',' nor ']' after an item, _parse_object
\* finding neither a quoted key with its ':' nor '}' (or the input ending
\* there): they return false without calling a handler
SyntaxErrorInContainer ==
  /\ pc \in {"arrNext", "objFirst", "objNext"}
  /\ nvalues <= MaxValues
  /\ stack' = Pop(stack)
  /\ ok' = FALSE
  /\ pc' = "return"
  /\ UNCHANGED << engine, observed, matcher >>

(***************************************************************************)
(* Objects.                                                                *)
(***************************************************************************)
\* parse_object_start without its object_depth++
parse_object_start_keeping_depth ==
  /\ pc = "value"
  /\ object_idx' = 0
  /\ stack' = Append(stack, ContainerFrame("obj"))
  /\ pc' = "objFirst"
  /\ doc' = Append(doc, "{")
  /\ UNCHANGED << root_path, error_path, flatbuffers_parser_ready,
                  is_parse_error, is_error_path, object_depth, array_depth,
                  array_idx, current_path, current_key, ss, emit_json,
                  needs_close_array, needs_close_object, reflection_table,
                  schema_loaded, ok, nvalues, dispatches, result,
                  capture_start, matcher >>

parse_object_start ==
  /\ pc = "value"
  /\ object_depth' = object_depth + 1
  /\ object_idx' = 0
  /\ stack' = Append(stack, ContainerFrame("obj"))
  /\ pc' = "objFirst"
  /\ doc' = Append(doc, "{")
  /\ UNCHANGED << root_path, error_path, flatbuffers_parser_ready,
                  is_parse_error, is_error_path, array_depth, array_idx,
                  current_path, current_key, ss, emit_json, needs_close_array,
                  needs_close_object, reflection_table, schema_loaded, ok,
                  nvalues, dispatches, result, capture_start, matcher >>

\* what parse_object_item streams for key before it recurses, given the
\* values the flags have once is_error_path and emit_json are recomputed
ItemPrefix(key, keyed, emit, emit_prev) ==
  IF ~emit THEN << >>
  ELSE IF keyed
  THEN ( IF ~emit_prev THEN << >>
         ELSE IF ~needs_close_array THEN << "[" >>
         ELSE << "," >> )
       \o << "{", TaggedLex(key) >>
  ELSE ( IF ~needs_close_object THEN << "{" >> ELSE << "," >> )
       \o << KeyLex(key) >>

\* parse_object_item up to its call of _parse (lines 276-334)
ParseObjectItemEnter(key) ==
  /\ pc \in {"objFirst", "objNext"}
  /\ nvalues < ValueLimit
  /\ LET kv == check_for_keyed_vector_table(reflection_table, key)
         path == Append(current_path, key)
         error == is_a_subpath(path, error_path)
         emit == error \/ is_a_subpath(path, root_path)
         array_open == IF emit /\ kv.found /\ emit_json /\ ~needs_close_array
                       THEN TRUE ELSE needs_close_array
         object_open == IF emit THEN TRUE ELSE needs_close_object
     IN /\ reflection_table' = kv.table
        /\ current_key' = key
        /\ current_path' = path
        /\ is_error_path' = error
        /\ emit_json' = emit
        /\ capture_start' = IF emit /\ ~emit_json THEN path ELSE capture_start
        /\ ss' = ss \o ItemPrefix(key, kv.found, emit, emit_json)
        /\ stack' = Append(stack, ItemFrame(key, kv.found, reflection_table,
                                            array_open, object_open))
        /\ needs_close_array' = FALSE
        /\ needs_close_object' = FALSE
  /\ pc' = "value"
  /\ nvalues' = nvalues + 1
  /\ doc' = doc \o (IF pc = "objNext" THEN << "," >> ELSE << >>) \o << KeyLex(key) >>
  /\ UNCHANGED << root_path, error_path, flatbuffers_parser_ready,
                  is_parse_error, object_depth, array_depth, object_idx,
                  array_idx, schema_loaded, ok, dispatches, result, matcher >>

\* parse_object_item returning false when its dispatch failed
ParseObjectItemExit_failing_with_dispatch ==
  /\ pc = "return"
  /\ stack # << >>
  /\ Top.kind = "item"
  /\ needs_close_array' = Top.array_prev
  /\ needs_close_object' = Top.object_prev
  /\ reflection_table' = Top.table_prev
  /\ object_idx' = object_idx + 1
  /\ current_path' = Pop(current_path)
  /\ IF is_a_subpath(Pop(current_path), root_path)
     THEN UNCHANGED << ss, emit_json, is_parse_error, dispatches, ok >>
     ELSE /\ emit_json' = FALSE
          /\ IF emit_json
             THEN \E o \in ConvertOutcomes :
                    LET text == IF Top.keyed = FALSE THEN Append(ss, "}") ELSE ss
                    IN /\ dispatches' = Append(dispatches,
                              convert_json_stream_to_flatbuffer(text, o, ok))
                       /\ ss' = << >>
                       /\ is_parse_error' = IF o # "ok" THEN TRUE ELSE is_parse_error
                       /\ ok' = (ok /\ o = "ok")
             ELSE UNCHANGED << ss, is_parse_error, dispatches, ok >>
  /\ IF ok'
     THEN /\ pc' = "objNext"
          /\ stack' = Pop(stack)
     ELSE /\ pc' = "return"
          /\ stack' = Pop2(stack)
  /\ UNCHANGED << root_path, error_path, flatbuffers_parser_ready,
                  is_error_path, object_depth, array_depth, array_idx,
                  current_key, schema_loaded, doc, nvalues, result,
                  capture_start, matcher >>

\* parse_object_item after _parse returned ok (lines 336-365); _parse_object
\* then goes on to the next key, or returns false
ParseObjectItemExit ==
  /\ pc = "return"
  /\ stack # << >>
  /\ Top.kind = "item"
  /\ needs_close_array' = Top.array_prev
  /\ needs_close_object' = Top.object_prev
  /\ reflection_table' = Top.table_prev
  /\ object_idx' = object_idx + 1
  /\ current_path' = Pop(current_path)
  /\ IF is_a_subpath(Pop(current_path), root_path)
     THEN UNCHANGED << ss, emit_json, is_parse_error, dispatches >>
     ELSE /\ emit_json' = FALSE
          /\ IF emit_json
             THEN \E o \in ConvertOutcomes :
                    LET text == IF Top.keyed = FALSE THEN Append(ss, "}") ELSE ss
                    IN /\ dispatches' = Append(dispatches,
                              convert_json_stream_to_flatbuffer(text, o, ok))
                       /\ ss' = << >>
                       /\ is_parse_error' = IF o # "ok" THEN TRUE ELSE is_parse_error
             ELSE UNCHANGED << ss, is_parse_error, dispatches >>
  /\ IF ok
     THEN /\ pc' = "objNext"
          /\ stack' = Pop(stack)
     ELSE /\ pc' = "return"
          /\ stack' = Pop2(stack)
  /\ UNCHANGED << root_path, error_path, flatbuffers_parser_ready,
                  is_error_path, object_depth, array_depth, array_idx,
                  current_key, schema_loaded, ok, doc, nvalues, result,
                  capture_start, matcher >>

\* what parse_object_stop streams when emit_json holds
StopSuffix ==
  IF needs_close_array THEN << "]" >>
  ELSE IF needs_close_object
  THEN IF root_path # << >> THEN << "}", "}" >> ELSE << "}" >>
  ELSE << "}" >>

parse_object_stop ==
  /\ pc \in {"objFirst", "objNext"}
  /\ current_key' = ""
  /\ object_depth' = object_depth - 1
  /\ object_idx' = -1
  /\ IF emit_json
     THEN /\ needs_close_array' = FALSE
          /\ needs_close_object' = IF needs_close_array THEN needs_close_object ELSE FALSE
          /\ IF object_depth - 1 = 0
             THEN \E o \in ConvertOutcomes :
                    /\ dispatches' = Append(dispatches,
                          convert_json_stream_to_flatbuffer(ss \o StopSuffix, o, TRUE))
                    /\ ss' = << >>
             ELSE /\ ss' = ss \o StopSuffix
                  /\ UNCHANGED dispatches
     ELSE UNCHANGED << ss, needs_close_array, needs_close_object, dispatches >>
  /\ stack' = Pop(stack)
  /\ ok' = TRUE
  /\ pc' = "return"
  /\ doc' = Append(doc, "}")
  /\ UNCHANGED << root_path, error_path, flatbuffers_parser_ready,
                  is_parse_error, is_error_path, array_depth, array_idx,
                  current_path, emit_json, reflection_table, schema_loaded,
                  nvalues, result, capture_start, matcher >>

(***************************************************************************)
(* Stand-alone calls of is_a_subpath, on arguments built segment by        *)
(* segment.                                                                *)
(***************************************************************************)
PushCurrentSegment(s) ==
  /\ Len(arg_current) < MaxPathLen
  /\ arg_current' = Append(arg_current, s)
  /\ ret_subpath' = "none"
  /\ UNCHANGED << engine, control, observed, arg_pattern >>

PushPatternSegment(s) ==
  /\ Len(arg_pattern) < MaxPathLen
  /\ arg_pattern' = Append(arg_pattern, s)
  /\ ret_subpath' = "none"
  /\ UNCHANGED << engine, control, observed, arg_current >>

CallIsASubpath ==
  /\ ret_subpath' = IF is_a_subpath(arg_current, arg_pattern) THEN "true" ELSE "false"
  /\ UNCHANGED << engine, control, observed, arg_current, arg_pattern >>

(***************************************************************************)
(* Specifications.                                                         *)
(***************************************************************************)
Next ==
  \/ Clear
  \/ \E rp \in RootPatterns, ep \in ErrorPatterns : ParseStream(rp, ep)
  \/ ParseStreamReturn
  \/ set_null
  \/ set_bool
  \/ set_int64
  \/ set_number
  \/ parse_string
  \/ SyntaxErrorInValue
  \/ parse_array_start
  \/ parse_array_item
  \/ ArrayItemReturn
  \/ parse_array_stop
  \/ SyntaxErrorInContainer
  \/ parse_object_start
  \/ \E key \in Keys : ParseObjectItemEnter(key)
  \/ ParseObjectItemExit
  \/ parse_object_stop

Spec == Init /\ [][Next]_vars

MatcherNext ==
  \/ \E s \in PatternSegments : PushCurrentSegment(s)
  \/ \E s \in PatternSegments : PushPatternSegment(s)
  \/ CallIsASubpath

MatcherSpec == Init /\ [][MatcherNext]_vars

(***************************************************************************)
(* Reading the observations: the keys of the consumed document with their  *)
(* paths, and what the interface description says a pattern selects.       *)
(***************************************************************************)
IsKeyLex(l) == \E k \in Keys : l = KeyLex(k)
KeyOf(l) == CHOOSE k \in Keys : l = KeyLex(k)
KeysIn(st) == SelectSeq(st, LAMBDA x : x \in Keys)
\* a value is complete: the key it belongs to, if any, is left
CloseValue(st) ==
  IF st # << >> /\ st[Len(st)] \in Keys THEN SubSeq(st, 1, Len(st) - 1) ELSE st

\* the key occurrences of document d from lexeme i on, in document order,
\* each with its position and its path; st holds the open containers and keys
RECURSIVE DocKeys(_, _, _, _)
DocKeys(d, i, st, acc) ==
  IF i > Len(d) THEN acc
  ELSE LET l == d[i]
       IN IF l \in {"{", "["} THEN DocKeys(d, i + 1, Append(st, l), acc)
          ELSE IF IsKeyLex(l)
          THEN DocKeys(d, i + 1, Append(st, KeyOf(l)),
                       Append(acc, [pos |-> i, path |-> KeysIn(Append(st, KeyOf(l)))]))
          ELSE IF l \in {"}", "]"}
          THEN DocKeys(d, i + 1, CloseValue(SubSeq(st, 1, Len(st) - 1)), acc)
          ELSE IF l = "," THEN DocKeys(d, i + 1, st, acc)
          ELSE DocKeys(d, i + 1, CloseValue(st), acc)

KeyOccurrences == DocKeys(doc, 1, << >>, << >>)

\* a path satisfies a pattern, segment by segment
Satisfies(path, pattern) ==
  /\ Len(path) >= Len(pattern)
  /\ \A i \in 1..Len(pattern) : pattern[i] = wildcard_sym \/ pattern[i] = path[i]

\* a non-empty pattern selects the keys whose path satisfies it
Selects(path, pattern) == pattern # << >> /\ Satisfies(path, pattern)
Selected(path) == Selects(path, root_path) \/ Selects(path, error_path)
Shallowest(path) ==
  /\ Selected(path)
  /\ Len(path) = 1 \/ ~Selected(SubSeq(path, 1, Len(path) - 1))

\* the key occurrences at which a matched subtree begins, in document order
MatchedKeys == SelectSeq(KeyOccurrences, LAMBDA k : Shallowest(k.path))

Returned == pc = "returned"
\* both schema sources were loaded at construction
SchemasLoaded == flatbuffers_parser_ready /\ schema_loaded
WellFormed == Returned /\ ok
AllAccepted == \A i \in DOMAIN dispatches : dispatches[i].outcome = "ok"
KindCount(kind) == Cardinality({i \in DOMAIN dispatches : dispatches[i].kind = kind})

\* the text of a document as the handlers stream it: a number loses its
\* fraction
Streamed(d) == [i \in DOMAIN d |-> IF d[i] = "3.9" THEN "3" ELSE d[i]]

(***************************************************************************)
(* C1: for a well-formed document, with a ready schema and collaborators   *)
(* that accept, every matched subtree is dispatched exactly once, in       *)
(* document order: there are as many dispatches as keys at which a matched *)
(* subtree begins, and the i-th dispatch was captured from the i-th of     *)
(* them.  Stated for non-empty message and error patterns (C7 has the      *)
(* whole document under an empty message pattern).                         *)
(***************************************************************************)
C1_OneDispatchPerSubtree ==
  ( /\ WellFormed /\ SchemasLoaded /\ AllAccepted
    /\ root_path # << >> /\ error_path # << >> )
  => /\ Len(dispatches) = Len(MatchedKeys)
     /\ \A i \in DOMAIN dispatches : dispatches[i].began = MatchedKeys[i].path

(***************************************************************************)
(* C2: parse_stream returns true exactly when the tokenizer reported no    *)
(* syntax error and no dispatch of the call failed, at whichever handler   *)
(* the dispatch was made.  Stated for an engine whose schemas are loaded   *)
(* and a non-empty error pattern.                                          *)
(***************************************************************************)
C2_ResultIffNoFailure ==
  (Returned /\ SchemasLoaded /\ error_path # << >>)
  => ((result = "true") <=> (ok /\ AllAccepted))

(***************************************************************************)
(* C3: a dispatch selects one sink, and a dispatch whose capture began at  *)
(* a key whose path satisfies both patterns goes to the error sink.        *)
(***************************************************************************)
C3_ErrorTakesPrecedence ==
  SchemasLoaded =>
  \A i \in DOMAIN dispatches :
    /\ dispatches[i].kind \in {"Message", "Error"}
    /\ ( /\ dispatches[i].began # << >>
         /\ Selects(dispatches[i].began, error_path)
         /\ Satisfies(dispatches[i].began, root_path) )
       => dispatches[i].kind = "Error"

(***************************************************************************)
(* C4: with message pattern [m] and error pattern [e], m # e, a top-level  *)
(* object holding key m and key e, each once and with an object value, is  *)
(* dispatched as exactly one Message carrying the subtree under m and      *)
(* exactly one Error carrying the subtree under e.                         *)
(***************************************************************************)
TopLevelObjectKey(k) ==
  /\ Cardinality({i \in DOMAIN KeyOccurrences : KeyOccurrences[i].path = << k >>}) = 1
  /\ \E i \in DOMAIN KeyOccurrences :
       /\ KeyOccurrences[i].path = << k >>
       /\ doc[KeyOccurrences[i].pos + 1] = "{"

Carries(d, k) ==
  /\ Len(d.text) >= 2
  /\ d.text[1] = "{"
  /\ d.text[2] = KeyLex(k)

C4_DisjointPatternsBothFire ==
  ( /\ WellFormed /\ SchemasLoaded
    /\ Len(root_path) = 1 /\ Len(error_path) = 1
    /\ root_path[1] \in Keys /\ error_path[1] \in Keys
    /\ root_path[1] # error_path[1]
    /\ doc[1] = "{"
    /\ TopLevelObjectKey(root_path[1])
    /\ TopLevelObjectKey(error_path[1]) )
  => /\ KindCount("Message") = 1
     /\ KindCount("Error") = 1
     /\ \A i \in DOMAIN dispatches :
          Carries(dispatches[i],
                  IF dispatches[i].kind = "Message" THEN root_path[1] ELSE error_path[1])

(***************************************************************************)
(* C5: is_a_subpath(current, pattern) is true exactly when pattern is      *)
(* empty, or current is at least as long as pattern and every segment of   *)
(* pattern is the wildcard or equals the segment of current at its index;  *)
(* segments of current beyond the pattern's length do not matter.          *)
(***************************************************************************)
C5_SubpathCharacterised ==
  ret_subpath # "none"
  => /\ (ret_subpath = "true")
        <=> (arg_pattern = << >> \/ Satisfies(arg_current, arg_pattern))
     /\ (arg_pattern # << >> /\ Len(arg_pattern) > Len(arg_current))
        => ret_subpath = "false"
     /\ Len(arg_current) >= Len(arg_pattern)
        => (ret_subpath = "true")
           <=> is_a_subpath(SubSeq(arg_current, 1, Len(arg_pattern)), arg_pattern)

\* is_a_subpath was called with a wildcard in the pattern, on a current path
\* longer than the pattern, and matched
C5_Witness ==
  /\ ret_subpath = "true"
  /\ Len(arg_current) > Len(arg_pattern)
  /\ \E i \in DOMAIN arg_pattern : arg_pattern[i] = wildcard_sym
  /\ \E i \in DOMAIN arg_pattern : arg_pattern[i] # wildcard_sym

(***************************************************************************)
(* C6: in a parse call with an empty error pattern no dispatch is of kind  *)
(* Error, whatever the document and the message pattern.                   *)
(***************************************************************************)
C6_EmptyErrorPatternSelectsNothing ==
  (SchemasLoaded /\ error_path = << >>) => KindCount("Error") = 0

(***************************************************************************)
(* C7: with an empty message pattern and an error pattern that no path of  *)
(* the document satisfies, a well-formed document whose top level is an    *)
(* object is dispatched exactly once, as a Message whose text is the text  *)
(* of the whole document; the call succeeds when that dispatch does.       *)
(***************************************************************************)
ErrorPatternUnmatched ==
  /\ error_path # << >>
  /\ \A i \in DOMAIN KeyOccurrences : ~Satisfies(KeyOccurrences[i].path, error_path)

C7_WholeDocumentDispatchedOnce ==
  ( /\ WellFormed /\ SchemasLoaded
    /\ root_path = << >> /\ ErrorPatternUnmatched /\ doc[1] = "{" )
  => /\ Len(dispatches) = 1
     /\ dispatches[1].kind = "Message"
     /\ dispatches[1].text = Streamed(doc)
     /\ dispatches[1].outcome = "ok" => result = "true"

(***************************************************************************)
(* C8: after a syntax error parse_stream returns false, and no value the   *)
(* tokenizer did not complete is dispatched.                               *)
(***************************************************************************)
C8_NoDispatchAfterSyntaxError ==
  (SchemasLoaded /\ error_path # << >>)
  => /\ (Returned /\ ~ok) => result = "false"
     /\ \A i \in DOMAIN dispatches : dispatches[i].complete

(***************************************************************************)
(* C9: when either schema load failed, every dispatch fails before the     *)
(* encoder is called and before a sink is invoked.                         *)
(***************************************************************************)
C9_FailedLoadDisablesPipeline ==
  ((~flatbuffers_parser_ready \/ ~schema_loaded) /\ error_path # << >>)
  => \A i \in DOMAIN dispatches :
       /\ ~EncoderCalled(dispatches[i].outcome)
       /\ ~SinkInvoked(dispatches[i].outcome)
       /\ dispatches[i].outcome # "ok"

(***************************************************************************)
(* C10: after clear(), called by the owner once or repeatedly or by        *)
(* parse_stream on entry, the parsing and output state is that of a        *)
(* freshly constructed engine, whatever happened before; the schema        *)
(* cursor is the one construction left.                                    *)
(***************************************************************************)
FreshParsingState ==
  /\ is_parse_error = FALSE
  /\ is_error_path = FALSE
  /\ object_depth = 0
  /\ array_depth = 0
  /\ object_idx = 0
  /\ array_idx = 0
  /\ current_path = << >>
  /\ current_key = ""
  /\ ss = << >>
  /\ emit_json = FALSE
  /\ needs_close_array = FALSE
  /\ needs_close_object = FALSE

C10_ClearRestoresFreshState ==
  (pc = "cleared" \/ (pc = "value" /\ stack = << >>))
  => /\ FreshParsingState
     /\ IF schema_loaded THEN reflection_table = root_table
        ELSE reflection_table \in {NoTable, "Item"}

\* clear() was called twice after a parse call that a syntax error aborted
\* inside a captured subtree
C10_Witness ==
  /\ pc = "cleared"
  /\ result = "false"
  /\ ~ok
  /\ root_path = << "a" >>
  /\ FreshParsingState

(***************************************************************************)
(* C11: after parse_stream has consumed a complete, well-formed document,  *)
(* whatever its nesting, the patterns and the outcomes of the dispatches,  *)
(* object_depth and array_depth are 0 and current_path is empty.           *)
(***************************************************************************)
C11_DepthsZeroAfterDocument ==
  WellFormed
  => /\ object_depth = 0
     /\ array_depth = 0
     /\ current_path = << >>

\* a well-formed document with an array inside an object was consumed, and
\* a dispatch of the call was refused
C11_Witness ==
  /\ WellFormed
  /\ \E i \in DOMAIN doc : doc[i] = "[" /\ i > 1 /\ doc[1] = "{"
  /\ \E i \in DOMAIN dispatches : dispatches[i].outcome \in Refused
  /\ object_depth = 0
  /\ array_depth = 0
  /\ current_path = << >>

(***************************************************************************)
(* C12: in every state, also while a syntax error unwinds the handlers,    *)
(* object_depth >= 0, array_depth >= 0 and current_path has at most        *)
(* object_depth segments; and every step that changes current_path is the  *)
(* push of one key by parse_object_item on entering a key, or the pop of   *)
(* the last segment by parse_object_item on leaving it.                    *)
(***************************************************************************)
DepthsConsistent ==
  /\ object_depth >= 0
  /\ array_depth >= 0
  /\ Len(current_path) <= object_depth

PushOrPop ==
  current_path' # current_path
  => \/ /\ pc \in {"objFirst", "objNext"}
        /\ pc' = "value"
        /\ \E key \in Keys : current_path' = Append(current_path, key)
     \/ /\ pc = "return"
        /\ stack # << >>
        /\ Top.kind = "item"
        /\ current_path # << >>
        /\ current_path' = Pop(current_path)

C12_PathWithinDepth == [](DepthsConsistent) /\ [][PushOrPop]_vars

\* a parse call returned after a syntax error inside an object inside an
\* array inside an object: the depths stay where the error left them
C12_Witness ==
  /\ pc = "returned"
  /\ ~ok
  /\ object_depth = 2
  /\ array_depth = 1
  /\ current_path = << >>

(***************************************************************************)
(* C13: every text handed to the pipeline while a well-formed document is  *)
(* parsed has properly nested, balanced wrappers: each '{' has its '}' and *)
(* each '[' its ']'.                                                       *)
(***************************************************************************)
\* the wrappers of text from lexeme i on close the wrappers in open, last
\* opened first, and leave none open
RECURSIVE Nested(_, _, _)
Nested(text, i, open) ==
  IF i > Len(text) THEN open = << >>
  ELSE IF text[i] \in {"{", "["} THEN Nested(text, i + 1, Append(open, text[i]))
  ELSE IF text[i] \in {"}", "]"}
  THEN /\ open # << >>
       /\ open[Len(open)] = (IF text[i] = "}" THEN "{" ELSE "[")
       /\ Nested(text, i + 1, SubSeq(open, 1, Len(open) - 1))
  ELSE Nested(text, i + 1, open)

Balanced(text) == Nested(text, 1, << >>)

C13_WrappersBalanced ==
  (WellFormed /\ SchemasLoaded)
  => \A i \in DOMAIN dispatches : Balanced(dispatches[i].text)

(***************************************************************************)
(* C14: the first key of a newly started capture is not preceded by a      *)
(* comma: no text handed to the pipeline while a well-formed document is   *)
(* parsed begins with ','.                                                 *)
(***************************************************************************)
C14_NoLeadingComma ==
  (WellFormed /\ SchemasLoaded)
  => \A i \in DOMAIN dispatches :
       dispatches[i].text # << >> => dispatches[i].text[1] # ","

(***************************************************************************)
(* C15: in every text handed to the pipeline while a well-formed document  *)
(* is parsed, the first item of an array follows its '[' directly and      *)
(* every other item follows exactly one comma that follows the item before *)
(* it, at every nesting depth.  Stated for texts without tagged elements,  *)
(* whose arrays are all arrays of the document.                            *)
(***************************************************************************)
ValueStart(l) == l \notin {",", "}", "]"} /\ ~IsKeyLex(l)
ValueEnd(l) == l \notin {",", "{", "["} /\ ~IsKeyLex(l)

\* the items of the arrays of text from lexeme i on are separated; open
\* holds the wrappers open at lexeme i
RECURSIVE ArraysSeparated(_, _, _)
ArraysSeparated(text, i, open) ==
  IF i > Len(text) THEN TRUE
  ELSE LET l == text[i]
           in_array == open # << >> /\ open[Len(open)] = "["
       IN /\ (in_array /\ ValueStart(l))
             => \/ text[i - 1] = "["
                \/ text[i - 1] = "," /\ ValueEnd(text[i - 2])
          /\ (in_array /\ l = ",") => ValueEnd(text[i - 1])
          /\ ArraysSeparated(text, i + 1,
               IF l \in {"{", "["} THEN Append(open, l)
               ELSE IF l \in {"}", "]"} /\ open # << >>
               THEN SubSeq(open, 1, Len(open) - 1)
               ELSE open)

Untagged(text) == \A j \in DOMAIN text : \A k \in Keys : text[j] # TaggedLex(k)

C15_ArrayItemsSeparated ==
  (WellFormed /\ SchemasLoaded)
  => \A i \in DOMAIN dispatches :
       Untagged(dispatches[i].text)
       => ArraysSeparated(dispatches[i].text, 1, << >>)

(***************************************************************************)
(* C16: on leaving an object key the engine dispatches, and stops          *)
(* capturing, only if it was capturing and the path after the pop          *)
(* satisfies neither the message pattern nor the error pattern.  Stated    *)
(* for a non-empty error pattern.                                          *)
(***************************************************************************)
LeavingKey == pc = "return" /\ stack # << >> /\ Top.kind = "item"

FinalizeOnlyOutsidePatterns ==
  ( /\ LeavingKey /\ SchemasLoaded /\ error_path # << >>
    /\ (dispatches' # dispatches \/ (emit_json /\ ~emit_json')) )
  => /\ emit_json
     /\ ~Satisfies(current_path', root_path)
     /\ ~Satisfies(current_path', error_path)

C16_FinalizeOnlyOutsideBothPatterns == [][FinalizeOnlyOutsidePatterns]_vars

(***************************************************************************)
(* C17: the kind of a dispatch is decided at the key where its capture     *)
(* began, not by the keys visited later: a dispatch whose capture began at *)
(* a key whose path does not satisfy the error pattern is a Message,       *)
(* whichever keys follow inside the captured subtree and in whatever       *)
(* order.  Stated for well-formed documents.                               *)
(***************************************************************************)
C17_KindFixedWhereCaptureBegan ==
  (WellFormed /\ SchemasLoaded /\ error_path # << >>)
  => \A i \in DOMAIN dispatches :
       ( /\ dispatches[i].began # << >>
         /\ ~Satisfies(dispatches[i].began, error_path) )
       => dispatches[i].kind = "Message"

(***************************************************************************)
(* C18: no captured text is left behind: whenever the engine is not        *)
(* capturing the reconstruction buffer is empty, and when parse_stream     *)
(* returns after a well-formed document, whatever its top level and the    *)
(* patterns, the buffer is empty.                                          *)
(***************************************************************************)
C18_BufferEmptyWhenNotCapturing ==
  SchemasLoaded
  => /\ ~emit_json => ss = << >>
     /\ WellFormed => ss = << >>

(***************************************************************************)
(* C19: a failed dispatch does not stop the stream.  parse_object_item     *)
(* returns what its _parse call returned and parse_object_stop returns     *)
(* true, whatever the outcome of the dispatch they made, so picojson goes  *)
(* on with the next key or the enclosing container; and is_parse_error,    *)
(* once set, is reset only by clear().                                     *)
(***************************************************************************)
FailedDispatch ==
  /\ Len(dispatches') = Len(dispatches) + 1
  /\ dispatches'[Len(dispatches')].outcome # "ok"

HandlerResultIgnoresDispatch ==
  FailedDispatch
  => IF LeavingKey
     THEN /\ ok' = ok
          /\ pc' = (IF ok THEN "objNext" ELSE "return")
     ELSE /\ ok' = TRUE
          /\ pc' = "return"

ErrorFlagSticky == (is_parse_error /\ ~is_parse_error') => Idle

C19_FailedDispatchDoesNotStopStream ==
  [][HandlerResultIgnoresDispatch]_vars /\ [][ErrorFlagSticky]_vars

\* a well-formed document was consumed to its end: its first matched
\* subtree was refused, its second was dispatched after that and accepted
C19_Witness ==
  /\ WellFormed
  /\ SchemasLoaded
  /\ Len(dispatches) = 2
  /\ dispatches[1].outcome \in Refused
  /\ dispatches[2].outcome = "ok"
  /\ is_parse_error
  /\ result = "false"

(***************************************************************************)
(* C20: in every text handed to the pipeline while a well-formed document  *)
(* is parsed, a tagged element {"id":"k","val":<contents>} stands inside   *)
(* an array: it follows the '[' or a ',', its "val": is followed by the    *)
(* contents, and its own '}' closes it before the next ',' or the ']'.     *)
(* And when the value field of the table has no object type (the keys      *)
(* below b), no key is emitted as a tagged element.  Stated for documents  *)
(* that give every key of a keyed table an object value.                   *)
(***************************************************************************)
IsTagged(l) == \E k \in Keys : l = TaggedLex(k)

\* the index of the lexeme that closes the wrapper opened before lexeme i,
\* depth wrappers being open at lexeme i; 0 if there is none
RECURSIVE ClosingIndex(_, _, _)
ClosingIndex(text, i, depth) ==
  IF i > Len(text) THEN 0
  ELSE IF text[i] \in {"{", "["} THEN ClosingIndex(text, i + 1, depth + 1)
  ELSE IF text[i] \in {"}", "]"}
  THEN IF depth = 1 THEN i ELSE ClosingIndex(text, i + 1, depth - 1)
  ELSE ClosingIndex(text, i + 1, depth)

TaggedElementInArray(text, j) ==
  LET close == ClosingIndex(text, j + 1, 1)
  IN /\ j >= 3
     /\ text[j - 1] = "{"
     /\ text[j - 2] \in {"[", ","}
     /\ j < Len(text)
     /\ ValueStart(text[j + 1])
     /\ close # 0
     /\ text[close] = "}"
     /\ close < Len(text)
     /\ text[close + 1] \in {",", "]"}

OnlyBelow(k) == \A i \in DOMAIN KeyOccurrences : KeyOccurrences[i].path[1] = k

\* the values of the keys of a keyed table (the keys below a) are objects,
\* as the schema has them
KeyedValuesAreObjects ==
  \A i \in DOMAIN KeyOccurrences :
    (Len(KeyOccurrences[i].path) = 2 /\ KeyOccurrences[i].path[1] = "a")
    => doc[KeyOccurrences[i].pos + 1] = "{"

C20_KeyedTableRewrite ==
  (WellFormed /\ SchemasLoaded /\ KeyedValuesAreObjects)
  => \A i \in DOMAIN dispatches :
       /\ \A j \in DOMAIN dispatches[i].text :
            IsTagged(dispatches[i].text[j])
            => TaggedElementInArray(dispatches[i].text, j)
       /\ OnlyBelow("b") => Untagged(dispatches[i].text)

====
